---- MODULE Spec2Model ----
(***************************************************************************)
(* anything2anything: extension classification (categories.py), the        *)
(* conversion dispatcher (dispatcher.py), the three backend invokers       *)
(* (converters.py) and the command line entry point (cli.py).              *)
(*                                                                         *)
(* Strings that the code inspects character by character (extensions and   *)
(* file names) are sequences of one-character strings, so that lstrip,     *)
(* lower, suffix and stem are computed and not assumed.  A path is a       *)
(* record [dir, name]; the file system is the set of existing directories  *)
(* and a function from the existing files to their content.                *)
(*                                                                         *)
(* The verbose flag only adds printing and is left out.  The external      *)
(* tools are the environment: a tool is found or not when looked up, may   *)
(* fail to start, exits with some status and has or has not written the    *)
(* file it was asked for.                                                  *)
(***************************************************************************)
EXTENDS Integers, Sequences, FiniteSets, TLC

\* ------------------------------------------------------------------------
\* Bounds of the model
\* ------------------------------------------------------------------------
NumStems == 2
NumDirs == 2
NumSpellings == 13
MaxLeadingDots == 1

\* ------------------------------------------------------------------------
\* categories.py
\* ------------------------------------------------------------------------
Category == {"audio", "image", "video", "spreadsheet", "presentation", "document"}

None == "None"

EXTENSION_TO_CATEGORY ==
       (<<"m","p","3">> :> "audio")
    @@ (<<"w","a","v">> :> "audio")
    @@ (<<"m","4","a">> :> "audio")
    @@ (<<"h","e","i","c">> :> "image")
    @@ (<<"j","p","g">> :> "image")
    @@ (<<"j","p","e","g">> :> "image")
    @@ (<<"g","i","f">> :> "image")
    @@ (<<"i","c","n","s">> :> "image")
    @@ (<<"w","e","b","p">> :> "image")
    @@ (<<"a","v","i","f">> :> "image")
    @@ (<<"m","o","v">> :> "video")
    @@ (<<"m","p","4">> :> "video")
    @@ (<<"c","s","v">> :> "spreadsheet")
    @@ (<<"o","d","s">> :> "spreadsheet")
    @@ (<<"x","l","s","x">> :> "spreadsheet")
    @@ (<<"x","l","s">> :> "spreadsheet")
    @@ (<<"x","l","s","m">> :> "spreadsheet")
    @@ (<<"o","d","p">> :> "presentation")
    @@ (<<"p","p","t">> :> "presentation")
    @@ (<<"p","p","t","x">> :> "presentation")
    @@ (<<"d","o","c","x">> :> "document")
    @@ (<<"d","o","c">> :> "document")
    @@ (<<"o","d","t">> :> "document")
    @@ (<<"t","x","t">> :> "document")
    @@ (<<"r","t","f">> :> "document")

\* A plausible slip: the alias table folds in both directions.
EXTENSION_ALIASES_cyclic ==
    (<<"j","p","e","g">> :> <<"j","p","g">>) @@ (<<"j","p","g">> :> <<"j","p","e","g">>)

EXTENSION_ALIASES ==
    (<<"j","p","e","g">> :> <<"j","p","g">>)

\* str.lower() and its inverse on the ASCII letters
UpperCase ==
    <<"A","B","C","D","E","F","G","H","I","J","K","L","M",
      "N","O","P","Q","R","S","T","U","V","W","X","Y","Z">>

LowerCase ==
    <<"a","b","c","d","e","f","g","h","i","j","k","l","m",
      "n","o","p","q","r","s","t","u","v","w","x","y","z">>

LowerChar(c) ==
    IF \E i \in DOMAIN UpperCase : UpperCase[i] = c
    THEN LowerCase[CHOOSE i \in DOMAIN UpperCase : UpperCase[i] = c]
    ELSE c

UpperChar(c) ==
    IF \E i \in DOMAIN LowerCase : LowerCase[i] = c
    THEN UpperCase[CHOOSE i \in DOMAIN LowerCase : LowerCase[i] = c]
    ELSE c

Lower(s) == [i \in 1..Len(s) |-> LowerChar(s[i])]

Upper(s) == [i \in 1..Len(s) |-> UpperChar(s[i])]

\* str.lstrip("."): every leading dot goes
RECURSIVE LStripDots(_)
LStripDots(s) ==
    IF s # <<>> /\ Head(s) = "." THEN LStripDots(Tail(s)) ELSE s

\* dict.get(key, default)
DictGet(d, key, default) == IF key \in DOMAIN d THEN d[key] ELSE default

\* A plausible slip: the lowercasing is left out.
normalize_extension_nolower(ext) ==
    LET stripped == LStripDots(ext)
    IN  DictGet(EXTENSION_ALIASES, stripped, stripped)

normalize_extension(ext) ==
    LET stripped == LStripDots(ext)
        lowered == Lower(stripped)
    IN  DictGet(EXTENSION_ALIASES, lowered, lowered)

\* pathlib: index of the last "." of a name, 0 when there is none
RECURSIVE RFindDot(_, _)
RFindDot(name, i) ==
    IF i = 0 THEN 0
    ELSE IF name[i] = "." THEN i ELSE RFindDot(name, i - 1)

\* pathlib PurePath.suffix: from the last dot on, unless that dot starts or
\* ends the name
Suffix(name) ==
    LET i == RFindDot(name, Len(name))
    IN  IF 1 < i /\ i < Len(name) THEN SubSeq(name, i, Len(name)) ELSE <<>>

\* pathlib PurePath.stem: the name without its suffix
Stem(name) ==
    LET i == RFindDot(name, Len(name))
    IN  IF 1 < i /\ i < Len(name) THEN SubSeq(name, 1, i - 1) ELSE name

get_extension(path) == normalize_extension(Suffix(path.name))

\* get_category: the category, or None where the code raises ValueError
get_category(tbl, path) == DictGet(tbl, get_extension(path), None)

\* ------------------------------------------------------------------------
\* State
\* ------------------------------------------------------------------------
VARIABLES
    pc,               \* position of the run
    table,            \* the module-level dict EXTENSION_TO_CATEGORY
    input_path,       \* cli.main: input_file
    output_path,      \* cli.main: output_file
    force,            \* cli.main: --force
    files,            \* file system: existing file -> content
    dirs,             \* file system: existing directories
    files0,           \* the files when the run started
    dirs0,            \* the directories when the run started
    called,           \* convert_file has been entered
    input_category,   \* convert_file: input_category
    output_category,  \* convert_file: output_category
    invokers,         \* the backend invokers entered
    lookups,          \* the tools looked up with shutil.which
    which,            \* result of the last shutil.which
    cmd,              \* the command handed to subprocess.run
    spawned,          \* external processes spawned
    returncode,       \* <<exit status>> of the external process, <<>> before
    tool_wrote,       \* the external process wrote its target file
    renamed,          \* convert_office renamed the produced file
    fallback,         \* the "No converter available" branch was taken
    error,            \* kind of the failure, "none" when there is none
    error_detail,     \* what the message names
    exit_code,        \* <<exit code>> of the run, <<>> while it runs
    ext_in,           \* extension study: the spelling handed over
    ext_base,         \* extension study: the lowercase spelling it varies
    norm1,            \* normalize_extension(ext_in)
    norm2,            \* normalize_extension(norm1)
    ext_category      \* get_category of a path spelled with ext_in

cli_vars ==
    <<input_path, output_path, force, files, dirs, files0, dirs0, called,
      input_category, output_category, invokers, lookups, which, cmd, spawned,
      returncode, tool_wrote, renamed, fallback, error, error_detail, exit_code>>

ext_vars == <<ext_in, ext_base, norm1, norm2, ext_category>>

vars == <<pc, table, cli_vars, ext_vars>>

\* ------------------------------------------------------------------------
\* Inputs of the runs
\* ------------------------------------------------------------------------
Min(a, b) == IF a < b THEN a ELSE b

DirNames == <<"d", "e", "f">>

StemNames == << <<"a">>, <<"b">>, <<"c">> >>

Spellings ==
    << <<"d","o","c","x">>, <<"o","d","t">>, <<"t","x","t">>, <<"m","p","3">>,
       <<"w","a","v">>, <<"m","o","v">>, <<"m","p","4">>, <<"j","p","g">>,
       <<"J","P","E","G">>, <<"c","s","v">>, <<"o","d","p">>, <<"x","y","z">>,
       <<>>, <<"O","D","T">> >>

Dirs == {DirNames[i] : i \in 1..Min(NumDirs, Len(DirNames))}

Stems == {StemNames[i] : i \in 1..Min(NumStems, Len(StemNames))}

Exts == {Spellings[i] : i \in 1..Min(NumSpellings, Len(Spellings))}

FileName(stem, spelling) ==
    IF spelling = <<>> THEN stem ELSE stem \o <<".">> \o spelling

InputPaths == {[dir |-> DirNames[1], name |-> FileName(s, e)] : s \in Stems, e \in Exts}

OutputPaths == {[dir |-> d, name |-> FileName(s, e)] : d \in Dirs, s \in Stems, e \in Exts}

\* ------------------------------------------------------------------------
\* File system
\* ------------------------------------------------------------------------
Exists(fs, p) == p \in DOMAIN fs

WriteFile(fs, p, content) ==
    [q \in DOMAIN fs \cup {p} |-> IF q = p THEN content ELSE fs[q]]

\* os.rename on POSIX: the destination is replaced silently
Rename(fs, src, dst) ==
    [q \in (DOMAIN fs \ {src}) \cup {dst} |-> IF q = dst THEN fs[src] ELSE fs[q]]

\* ------------------------------------------------------------------------
\* converters.py
\* ------------------------------------------------------------------------
\* A plausible slip: the lookup result is ignored.
check_tool_available_always(found) == TRUE

\* check_tool_available: shutil.which(tool) is not None
check_tool_available(found) == found # None

\* the tool each invoker looks up and runs
ToolOf(invoker) ==
    CASE invoker = "convert_audio" -> "ffmpeg"
      [] invoker = "convert_video" -> "ffmpeg"
      [] invoker = "convert_image" -> "magick"
      [] invoker = "convert_office" -> "soffice"

\* convert_audio: the codec flags of a target extension, <<>> for the
\* "Unsupported audio output format" branch
AudioProfile(ext) ==
    CASE ext = <<"m","p","3">> -> <<"-codec:a", "libmp3lame", "-q:a", "2">>
      [] ext = <<"w","a","v">> -> <<"-codec:a", "pcm_s16le">>
      [] ext = <<"m","4","a">> -> <<"-codec:a", "aac", "-b:a", "192k">>
      [] OTHER -> <<>>

\* convert_video: the codec flags of a target extension, <<>> for the
\* "Unsupported video output format" branch
VideoProfile(ext) ==
    CASE ext = <<"m","p","4">> ->
            <<"-codec:v", "libx264", "-codec:a", "aac", "-movflags", "+faststart">>
      [] ext = <<"m","o","v">> -> <<"-codec:v", "libx264", "-codec:a", "aac">>
      [] OTHER -> <<>>

\* output_path.suffix.lower().lstrip(".")
MediaExt(out) == LStripDots(Lower(Suffix(out.name)))

\* convert_office: target_ext = output_path.suffix.lstrip(".")
TargetExt(out) == LStripDots(Suffix(out.name))

\* the invoker raises "Unsupported ... output format" before building a command
UnsupportedOutputFormat(invoker, out) ==
    \/ invoker = "convert_audio" /\ AudioProfile(MediaExt(out)) = <<>>
    \/ invoker = "convert_video" /\ VideoProfile(MediaExt(out)) = <<>>

\* the argument list an invoker builds
BuildCommand(invoker, inp, out) ==
    CASE invoker = "convert_audio" ->
            [tool |-> "ffmpeg", flags |-> <<"-y">> \o AudioProfile(MediaExt(out)),
             input |-> inp, output |-> out]
      [] invoker = "convert_video" ->
            [tool |-> "ffmpeg", flags |-> <<"-y">> \o VideoProfile(MediaExt(out)),
             input |-> inp, output |-> out]
      [] invoker = "convert_image" ->
            [tool |-> "magick", flags |-> <<>>, input |-> inp, output |-> out]
      [] invoker = "convert_office" ->
            [tool |-> "soffice", flags |-> <<"--headless">>,
             convert_to |-> TargetExt(out), outdir |-> out.dir, input |-> inp]

\* The file the external tool writes when it writes one: the media and
\* image tools write the output argument, the office tool writes
\* <outdir>/<stem of the input>.<convert-to>
ToolTarget(c) ==
    IF c.tool = "soffice"
    THEN [dir |-> c.outdir, name |-> Stem(c.input.name) \o <<".">> \o c.convert_to]
    ELSE c.output

\* the file system after the external tool has run
ToolEffect(fs, c, wrote) ==
    IF wrote THEN WriteFile(fs, ToolTarget(c), "produced") ELSE fs

\* convert_office: expected_output = output_dir / f"{input_path.stem}.{target_ext}"
ExpectedOutput(inp, out) ==
    [dir |-> out.dir, name |-> Stem(inp.name) \o <<".">> \o TargetExt(out)]

\* A plausible slip: the test for the produced file is left out.
OutputMissing_unchecked(fs, inp, out) == FALSE

\* convert_office: not expected_output.exists()
OutputMissing(fs, inp, out) == ~Exists(fs, ExpectedOutput(inp, out))

\* A plausible slip: the rename is never taken.
NeedsRename_never(inp, out) == FALSE

\* convert_office: expected_output != output_path
NeedsRename(inp, out) == ExpectedOutput(inp, out) # out

\* ------------------------------------------------------------------------
\* dispatcher.py
\* ------------------------------------------------------------------------
\* A plausible slip: the comparison is inverted.
CategoriesDiffer_inverted(a, b) == a = b

\* convert_file: input_category != output_category
CategoriesDiffer(a, b) == a # b

\* A plausible slip: presentations are missing from the office branch.
InvokerFor_nopresentation(category) ==
    CASE category = "audio" -> "convert_audio"
      [] category = "video" -> "convert_video"
      [] category = "image" -> "convert_image"
      [] category \in {"document", "spreadsheet"} -> "convert_office"
      [] OTHER -> None

\* convert_file: the if/elif chain, None for its else branch
InvokerFor(category) ==
    CASE category = "audio" -> "convert_audio"
      [] category = "video" -> "convert_video"
      [] category = "image" -> "convert_image"
      [] category \in {"document", "spreadsheet", "presentation"} -> "convert_office"
      [] OTHER -> None

\* ------------------------------------------------------------------------
\* cli.py
\* ------------------------------------------------------------------------
\* A plausible slip: the sense of --force is inverted.
OutputBlocked_inverted(fs, out, f) == Exists(fs, out) /\ f

\* main: output_file.exists() and not force
OutputBlocked(fs, out, f) == Exists(fs, out) /\ ~f

\* every handler of main ends the process with exit code 1
Fail(kind, detail) ==
    /\ error' = kind
    /\ error_detail' = detail
    /\ exit_code' = <<1>>
    /\ pc' = "done"

\* main returns after printing "Success"
Succeed ==
    /\ error' = "none"
    /\ error_detail' = <<>>
    /\ exit_code' = <<0>>
    /\ pc' = "done"

NoCmd == [tool |-> None]

\* the files that may be there before the run: the input, the output and
\* the file the office tool would be expected to leave
CandidateFiles(inp, out) ==
    {inp, out} \cup (IF Suffix(out.name) = <<>> THEN {} ELSE {ExpectedOutput(inp, out)})

InitialContent(inp, p) == IF p = inp THEN "input" ELSE "existing"

Init ==
    /\ pc = "start"
    /\ table = EXTENSION_TO_CATEGORY
    /\ input_path \in InputPaths
    /\ output_path \in OutputPaths
    /\ force \in BOOLEAN
    /\ files \in {[p \in present |-> InitialContent(input_path, p)] :
                    present \in SUBSET CandidateFiles(input_path, output_path)}
    /\ dirs \in {{DirNames[1]} \cup {p.dir : p \in DOMAIN files} \cup extra :
                    extra \in {{}, {output_path.dir}}}
    /\ files0 = files
    /\ dirs0 = dirs
    /\ called = FALSE
    /\ input_category = None
    /\ output_category = None
    /\ invokers = {}
    /\ lookups = <<>>
    /\ which = None
    /\ cmd = NoCmd
    /\ spawned = 0
    /\ returncode = <<>>
    /\ tool_wrote = FALSE
    /\ renamed = FALSE
    /\ fallback = FALSE
    /\ error = "none"
    /\ error_detail = <<>>
    /\ exit_code = <<>>
    /\ ext_in = <<>>
    /\ ext_base = <<>>
    /\ norm1 = <<>>
    /\ norm2 = <<>>
    /\ ext_category = None

\* main: the output exists and --force was not given
PreCheckFail ==
    /\ pc = "start"
    /\ OutputBlocked(files, output_path, force)
    /\ Fail("OutputExists", <<>>)
    /\ UNCHANGED <<table, input_path, output_path, force, files, dirs, files0, dirs0,
                   called, input_category, output_category, invokers, lookups, which,
                   cmd, spawned, returncode, tool_wrote, renamed, fallback, ext_vars>>

\* main: output_file.parent.mkdir(parents=True, exist_ok=True)
MakeOutputDir ==
    /\ pc = "start"
    /\ ~OutputBlocked(files, output_path, force)
    /\ dirs' = dirs \cup {output_path.dir}
    /\ pc' = "convert_file"
    /\ UNCHANGED <<table, input_path, output_path, force, files, files0, dirs0,
                   called, input_category, output_category, invokers, lookups, which,
                   cmd, spawned, returncode, tool_wrote, renamed, fallback, error,
                   error_detail, exit_code, ext_vars>>

\* convert_file: the input does not exist
InputNotFound ==
    /\ pc = "convert_file"
    /\ ~Exists(files, input_path)
    /\ called' = TRUE
    /\ Fail("NotFound", <<"input">>)
    /\ UNCHANGED <<table, input_path, output_path, force, files, dirs, files0, dirs0,
                   input_category, output_category, invokers, lookups, which,
                   cmd, spawned, returncode, tool_wrote, renamed, fallback, ext_vars>>

\* convert_file: get_category(input_path) raises
UnsupportedInput ==
    /\ pc = "convert_file"
    /\ Exists(files, input_path)
    /\ get_category(table, input_path) = None
    /\ called' = TRUE
    /\ Fail("UnsupportedFormat", <<"input">>)
    /\ UNCHANGED <<table, input_path, output_path, force, files, dirs, files0, dirs0,
                   input_category, output_category, invokers, lookups, which,
                   cmd, spawned, returncode, tool_wrote, renamed, fallback, ext_vars>>

\* convert_file: get_category(output_path) raises
UnsupportedOutput ==
    /\ pc = "convert_file"
    /\ Exists(files, input_path)
    /\ get_category(table, input_path) # None
    /\ get_category(table, output_path) = None
    /\ called' = TRUE
    /\ input_category' = get_category(table, input_path)
    /\ Fail("UnsupportedFormat", <<"output">>)
    /\ UNCHANGED <<table, input_path, output_path, force, files, dirs, files0, dirs0,
                   output_category, invokers, lookups, which,
                   cmd, spawned, returncode, tool_wrote, renamed, fallback, ext_vars>>

\* convert_file: the categories differ
CategoryMismatch ==
    /\ pc = "convert_file"
    /\ Exists(files, input_path)
    /\ get_category(table, input_path) # None
    /\ get_category(table, output_path) # None
    /\ CategoriesDiffer(get_category(table, input_path), get_category(table, output_path))
    /\ called' = TRUE
    /\ input_category' = get_category(table, input_path)
    /\ output_category' = get_category(table, output_path)
    /\ Fail("CategoryMismatch",
            <<get_category(table, input_path), get_category(table, output_path)>>)
    /\ UNCHANGED <<table, input_path, output_path, force, files, dirs, files0, dirs0,
                   invokers, lookups, which,
                   cmd, spawned, returncode, tool_wrote, renamed, fallback, ext_vars>>

\* convert_file: the checks pass and the if/elif chain enters an invoker,
\* or falls into its else branch
Dispatch ==
    /\ pc = "convert_file"
    /\ Exists(files, input_path)
    /\ get_category(table, input_path) # None
    /\ get_category(table, output_path) # None
    /\ ~CategoriesDiffer(get_category(table, input_path), get_category(table, output_path))
    /\ called' = TRUE
    /\ input_category' = get_category(table, input_path)
    /\ output_category' = get_category(table, output_path)
    /\ IF InvokerFor(get_category(table, input_path)) = None
       THEN /\ fallback' = TRUE
            /\ Fail("ConversionFailed", <<"no converter">>)
            /\ UNCHANGED invokers
       ELSE /\ invokers' = invokers \cup {InvokerFor(get_category(table, input_path))}
            /\ pc' = "invoker"
            /\ UNCHANGED <<fallback, error, error_detail, exit_code>>
    /\ UNCHANGED <<table, input_path, output_path, force, files, dirs, files0, dirs0,
                   lookups, which, cmd, spawned, returncode, tool_wrote, renamed,
                   ext_vars>>

\* the invoker convert_file entered
Invoker == CHOOSE i \in invokers : TRUE

\* exit statuses of the external tool
ExitStatuses == {0, 1}

\* an invoker: shutil.which finds nothing
ToolMissing ==
    /\ pc = "invoker"
    /\ \E found \in {None, "path"} :
          /\ ~check_tool_available(found)
          /\ which' = found
    /\ lookups' = Append(lookups, ToolOf(Invoker))
    /\ Fail("ToolNotFound", <<ToolOf(Invoker)>>)
    /\ UNCHANGED <<table, input_path, output_path, force, files, dirs, files0, dirs0,
                   called, input_category, output_category, invokers, cmd, spawned,
                   returncode, tool_wrote, renamed, fallback, ext_vars>>

\* an invoker: the tool is taken to be there and the command is built
PrepareCommand ==
    /\ pc = "invoker"
    /\ \E found \in {None, "path"} :
          /\ check_tool_available(found)
          /\ which' = found
    /\ lookups' = Append(lookups, ToolOf(Invoker))
    /\ IF UnsupportedOutputFormat(Invoker, output_path)
       THEN /\ Fail("ConversionFailed", <<"unsupported output format">>)
            /\ UNCHANGED cmd
       ELSE /\ cmd' = BuildCommand(Invoker, input_path, output_path)
            /\ pc' = "run_command"
            /\ UNCHANGED <<error, error_detail, exit_code>>
    /\ UNCHANGED <<table, input_path, output_path, force, files, dirs, files0, dirs0,
                   called, input_category, output_category, invokers, spawned,
                   returncode, tool_wrote, renamed, fallback, ext_vars>>

\* run_command: subprocess.run raises FileNotFoundError, no process starts
SpawnFails ==
    /\ pc = "run_command"
    /\ Fail("ToolNotFound", <<cmd.tool>>)
    /\ UNCHANGED <<table, input_path, output_path, force, files, dirs, files0, dirs0,
                   called, input_category, output_category, invokers, lookups, which,
                   cmd, spawned, returncode, tool_wrote, renamed, fallback, ext_vars>>

\* run_command: the process ends with a non-zero status
ToolFails ==
    /\ pc = "run_command"
    /\ \E rc \in ExitStatuses \ {0}, wrote \in BOOLEAN :
          /\ spawned' = spawned + 1
          /\ returncode' = <<rc>>
          /\ tool_wrote' = wrote
          /\ files' = ToolEffect(files, cmd, wrote)
    /\ Fail("ConversionFailed", <<cmd.tool>>)
    /\ UNCHANGED <<table, input_path, output_path, force, dirs, files0, dirs0,
                   called, input_category, output_category, invokers, lookups, which,
                   cmd, renamed, fallback, ext_vars>>

\* convert_audio, convert_video, convert_image: the process ends with
\* status 0 and the invoker returns
MediaDone ==
    /\ pc = "run_command"
    /\ Invoker # "convert_office"
    /\ \E wrote \in BOOLEAN :
          /\ spawned' = spawned + 1
          /\ returncode' = <<0>>
          /\ tool_wrote' = wrote
          /\ files' = ToolEffect(files, cmd, wrote)
    /\ Succeed
    /\ UNCHANGED <<table, input_path, output_path, force, dirs, files0, dirs0,
                   called, input_category, output_category, invokers, lookups, which,
                   cmd, renamed, fallback, ext_vars>>

\* convert_office: the process ends with status 0, then the produced file
\* is looked for and renamed when it is not the requested path
OfficeDone ==
    /\ pc = "run_command"
    /\ Invoker = "convert_office"
    /\ \E wrote \in BOOLEAN :
          LET after == ToolEffect(files, cmd, wrote)
              expected_output == ExpectedOutput(input_path, output_path)
          IN  /\ spawned' = spawned + 1
              /\ returncode' = <<0>>
              /\ tool_wrote' = wrote
              /\ IF OutputMissing(after, input_path, output_path)
                 THEN /\ files' = after
                      /\ renamed' = FALSE
                      /\ Fail("ConversionFailed", <<"no expected output">>)
                 ELSE IF NeedsRename(input_path, output_path)
                 THEN IF Exists(after, expected_output)
                      THEN /\ files' = Rename(after, expected_output, output_path)
                           /\ renamed' = TRUE
                           /\ Succeed
                      ELSE /\ files' = after
                           /\ renamed' = FALSE
                           /\ Fail("Unexpected", <<"rename">>)
                 ELSE /\ files' = after
                      /\ renamed' = FALSE
                      /\ Succeed
    /\ UNCHANGED <<table, input_path, output_path, force, dirs, files0, dirs0,
                   called, input_category, output_category, invokers, lookups, which,
                   cmd, fallback, ext_vars>>

Next ==
    \/ PreCheckFail
    \/ MakeOutputDir
    \/ InputNotFound
    \/ UnsupportedInput
    \/ UnsupportedOutput
    \/ CategoryMismatch
    \/ Dispatch
    \/ ToolMissing
    \/ PrepareCommand
    \/ SpawnFails
    \/ ToolFails
    \/ MediaDone
    \/ OfficeDone

Spec == Init /\ [][Next]_vars

\* ------------------------------------------------------------------------
\* The extension functions on their own: every key of the table and a few
\* strings outside it, spelled in lower case, upper case and capitalised,
\* with and without leading dots
\* ------------------------------------------------------------------------
OtherSpellings == {<<"x","y","z">>, <<"p","d","f">>, <<"j","p","e">>, <<>>}

ExtBases == DOMAIN EXTENSION_TO_CATEGORY \cup OtherSpellings

Capitalise(s) == [i \in 1..Len(s) |-> IF i = 1 THEN UpperChar(s[i]) ELSE s[i]]

Dots(n) == [i \in 1..n |-> "."]

SpelledAs(base) ==
    {Dots(n) \o c : n \in 0..MaxLeadingDots, c \in {base, Upper(base), Capitalise(base)}}

\* a path whose name carries the spelling as its extension
ExtPath(e) ==
    [dir |-> DirNames[1],
     name |-> IF e = <<>> THEN <<"a">>
              ELSE IF Head(e) = "." THEN <<"a">> \o e ELSE <<"a", ".">> \o e]

InitExt ==
    /\ pc = "ext_start"
    /\ table = EXTENSION_TO_CATEGORY
    /\ ext_base \in ExtBases
    /\ ext_in \in SpelledAs(ext_base)
    /\ norm1 = <<>>
    /\ norm2 = <<>>
    /\ ext_category = None
    /\ input_path = ExtPath(ext_in)
    /\ output_path = ExtPath(ext_in)
    /\ force = FALSE
    /\ files = <<>>
    /\ dirs = {DirNames[1]}
    /\ files0 = files
    /\ dirs0 = dirs
    /\ called = FALSE
    /\ input_category = None
    /\ output_category = None
    /\ invokers = {}
    /\ lookups = <<>>
    /\ which = None
    /\ cmd = NoCmd
    /\ spawned = 0
    /\ returncode = <<>>
    /\ tool_wrote = FALSE
    /\ renamed = FALSE
    /\ fallback = FALSE
    /\ error = "none"
    /\ error_detail = <<>>
    /\ exit_code = <<>>

Normalize ==
    /\ pc = "ext_start"
    /\ norm1' = normalize_extension(ext_in)
    /\ pc' = "ext_norm1"
    /\ UNCHANGED <<table, cli_vars, ext_in, ext_base, norm2, ext_category>>

NormalizeAgain ==
    /\ pc = "ext_norm1"
    /\ norm2' = normalize_extension(norm1)
    /\ pc' = "ext_norm2"
    /\ UNCHANGED <<table, cli_vars, ext_in, ext_base, norm1, ext_category>>

Classify ==
    /\ pc = "ext_norm2"
    /\ ext_category' = get_category(table, input_path)
    /\ pc' = "ext_done"
    /\ UNCHANGED <<table, cli_vars, ext_in, ext_base, norm1, norm2>>

NextExt ==
    \/ Normalize
    \/ NormalizeAgain
    \/ Classify

SpecExt == InitExt /\ [][NextExt]_vars

\* ------------------------------------------------------------------------
\* Properties
\* ------------------------------------------------------------------------
OfficeCategories == {"document", "spreadsheet", "presentation"}

InCat == get_category(EXTENSION_TO_CATEGORY, input_path)

OutCat == get_category(EXTENSION_TO_CATEGORY, output_path)

\* C1. Category-mismatch law: a convert call whose input exists and whose
\* input and output extensions are supported but of different categories
\* fails with CategoryMismatch, naming both categories, and during it no
\* invoker is entered, no tool is looked up and no process is spawned.
C1_CategoryMismatchLaw ==
    (/\ called
     /\ Exists(files0, input_path)
     /\ InCat # None
     /\ OutCat # None
     /\ InCat # OutCat)
    => /\ pc = "done"
       /\ error = "CategoryMismatch"
       /\ error_detail = <<InCat, OutCat>>
       /\ exit_code = <<1>>
       /\ invokers = {}
       /\ lookups = <<>>
       /\ cmd.tool = None
       /\ spawned = 0
       /\ files = files0

C1_Witness ==
    /\ pc = "done"
    /\ error = "CategoryMismatch"
    /\ input_category = "audio"
    /\ output_category = "image"
    /\ spawned = 0

\* C2 as stated. Missing-tool law: when the tool of the category is not on
\* the search path the run fails with ToolNotFound and exit code 1, spawns
\* no process, and has created no output file, no tool-produced file and no
\* output directory.
C2_MissingToolNoArtifact ==
    (lookups # <<>> /\ which = None)
    => /\ pc = "done"
       /\ error = "ToolNotFound"
       /\ exit_code = <<1>>
       /\ spawned = 0
       /\ files = files0
       /\ dirs = dirs0

\* C2 as amended. When the tool of the category is not on the search path
\* the run fails with ToolNotFound naming the tool and exit code 1, spawns
\* no process and creates no file; convert_file creates nothing, and the
\* only thing the run may have created is the parent directory of the
\* output, which main makes before it calls convert_file.
C2_MissingToolLaw ==
    (lookups # <<>> /\ which = None)
    => /\ pc = "done"
       /\ error = "ToolNotFound"
       /\ error_detail = <<ToolOf(Invoker)>>
       /\ exit_code = <<1>>
       /\ spawned = 0
       /\ cmd.tool = None
       /\ files = files0
       /\ dirs = dirs0 \cup {output_path.dir}

C2_Witness ==
    /\ pc = "done"
    /\ error = "ToolNotFound"
    /\ which = None
    /\ input_category = "video"
    /\ output_path.dir \notin dirs0
    /\ output_path.dir \in dirs

\* C3. Office rename law: when the office tool exits 0 having written
\* <outdir>/<input stem>.<target ext> and the requested path has another
\* stem, then after a successful return a file is at the requested path
\* and none at the path the tool wrote; when the requested path is the
\* path the tool wrote, nothing is renamed and the file stays there.
C3_OfficeRenameLaw ==
    (/\ pc = "done"
     /\ error = "none"
     /\ "convert_office" \in invokers
     /\ tool_wrote)
    => /\ Stem(output_path.name) # Stem(input_path.name)
          => /\ renamed
             /\ Exists(files, output_path)
             /\ files[output_path] = "produced"
             /\ ~Exists(files, ToolTarget(cmd))
       /\ output_path = ToolTarget(cmd)
          => /\ ~renamed
             /\ Exists(files, output_path)
             /\ files[output_path] = "produced"

C3_Witness ==
    /\ pc = "done"
    /\ error = "none"
    /\ "convert_office" \in invokers
    /\ tool_wrote
    /\ renamed
    /\ Stem(output_path.name) # Stem(input_path.name)
    /\ Exists(files, output_path)

\* C4 as stated. Whenever convert returns without raising, in every
\* category and whatever a tool that exited 0 did, a file is at the
\* requested output path; a tool that exits 0 without producing its file
\* is reported as ConversionFailed.
C4_SuccessMeansOutput ==
    /\ (pc = "done" /\ error = "none") => Exists(files, output_path)
    /\ (pc = "done" /\ returncode = <<0>> /\ ~Exists(files, output_path))
          => error = "ConversionFailed"

\* C4 as amended. Whenever convert returns without raising for a document,
\* spreadsheet or presentation, a file is at the requested output path, and
\* an office tool that exits 0 leaving no file at
\* <outdir>/<input stem>.<target ext> is reported as ConversionFailed; for
\* audio, video and image, convert returns without raising whenever the
\* tool exits 0, and the output file is not looked for.
C4_OfficeSuccessMeansOutput ==
    /\ (pc = "done" /\ error = "none" /\ "convert_office" \in invokers)
          => Exists(files, output_path)
    /\ (/\ pc = "done"
        /\ returncode = <<0>>
        /\ "convert_office" \in invokers
        /\ ~renamed
        /\ ~Exists(files, ToolTarget(cmd)))
          => error = "ConversionFailed"
    /\ (/\ pc = "done"
        /\ returncode = <<0>>
        /\ invokers # {}
        /\ "convert_office" \notin invokers)
          => error = "none"

C4_Witness ==
    /\ pc = "done"
    /\ "convert_office" \in invokers
    /\ returncode = <<0>>
    /\ ~tool_wrote
    /\ error = "ConversionFailed"
    /\ ~Exists(files, output_path)

\* C5. Overwrite pre-check: without --force and with the output path
\* existing, the run ends with exit code 1 before anything is attempted:
\* convert_file is not called, no directory is made, no process is
\* spawned and the files are as they were, whatever the input is.  With
\* --force the run goes on to make the directory and to call convert_file.
C5_OverwritePreCheck ==
    /\ (Exists(files0, output_path) /\ ~force)
          => /\ pc \in {"start", "done"}
             /\ ~called
             /\ invokers = {}
             /\ lookups = <<>>
             /\ spawned = 0
             /\ dirs = dirs0
             /\ files = files0
             /\ pc = "done" => (exit_code = <<1>> /\ error = "OutputExists")
    /\ (force /\ pc # "start") => output_path.dir \in dirs
    /\ (force /\ pc = "done") => called

C5_Witness ==
    /\ pc = "done"
    /\ error = "OutputExists"
    /\ exit_code = <<1>>
    /\ ~force
    /\ ~Exists(files0, input_path)
    /\ ~called

\* C6. get_category is the table lookup of the normalized extension: the
\* category of that key when it is one, UnsupportedFormat otherwise; so
\* spellings that differ by case or alias classify alike.
C6_GetCategoryIsLookup ==
    pc = "ext_done"
    => /\ ext_category =
             IF normalize_extension(Suffix(input_path.name)) \in DOMAIN table
             THEN table[normalize_extension(Suffix(input_path.name))]
             ELSE None
       /\ ext_base \in DOMAIN EXTENSION_TO_CATEGORY
             => ext_category = EXTENSION_TO_CATEGORY[ext_base]
       /\ ext_base \notin DOMAIN EXTENSION_TO_CATEGORY
             => ext_category = None

C6_Witness ==
    /\ pc = "ext_done"
    /\ ext_in = <<"J","P","E","G">>
    /\ ext_category = "image"
    /\ ext_category = get_category(table, ExtPath(<<"j","p","g">>))

\* C7. normalize_extension is idempotent on every extension of the table,
\* also written with a leading dot or in upper case; no alias target is an
\* alias source, and alias targets are lowercase without a leading dot.
C7_NormalizeIdempotent ==
    /\ (pc \in {"ext_norm2", "ext_done"} /\ ext_base \in DOMAIN EXTENSION_TO_CATEGORY)
          => norm2 = norm1
    /\ \A k \in DOMAIN EXTENSION_ALIASES :
          /\ EXTENSION_ALIASES[k] \notin DOMAIN EXTENSION_ALIASES
          /\ Lower(LStripDots(EXTENSION_ALIASES[k])) = EXTENSION_ALIASES[k]

C7_Witness ==
    /\ pc = "ext_norm2"
    /\ ext_in = <<".","J","P","E","G">>
    /\ norm1 = <<"j","p","g">>
    /\ norm2 = <<"j","p","g">>

\* C8. Table invariant: the table is never changed, and every key of it is
\* already normalized: normalize_extension(k) = k for every key k.
C8_TableKeysNormalized ==
    /\ table = EXTENSION_TO_CATEGORY
    /\ \A k \in DOMAIN table : normalize_extension(k) = k

\* C9. Routing: a convert call that passes the existence, classification
\* and same-category checks enters exactly one invoker, the one of the
\* shared category; a call that fails a check enters none; the "no
\* converter available" branch is never taken.
C9_Routing ==
    LET passes == /\ called
                  /\ Exists(files0, input_path)
                  /\ InCat # None
                  /\ InCat = OutCat
    IN  /\ ~fallback
        /\ passes =>
              invokers = IF InCat = "audio" THEN {"convert_audio"}
                         ELSE IF InCat = "video" THEN {"convert_video"}
                         ELSE IF InCat = "image" THEN {"convert_image"}
                         ELSE {"convert_office"}
        /\ ~passes => invokers = {}
        /\ "convert_office" \in invokers => InCat \in OfficeCategories

C9_Witness ==
    /\ pc = "done"
    /\ invokers = {"convert_office"}
    /\ input_category = "presentation"
    /\ spawned = 1

\* C10. Input preservation: no convert call removes, renames or moves the
\* input file; the file convert_office renames is never the input.
C10_InputPreserved ==
    /\ Exists(files0, input_path) => Exists(files, input_path)
    /\ renamed => ExpectedOutput(input_path, output_path) # input_path

====
